---------------------------- MODULE Spec2Model ----------------------------
(***************************************************************************)
(* The swap orchestration core of m10fx (service/src/ledger.rs and         *)
(* service/src/main.rs): per currency one Request Listener                 *)
(* (observe_requests) and one Settlement Listener (observe_transfer) over  *)
(* the ledger's stream of finalized transactions, and the Swap Monitor     *)
(* tasks spawned by launch_swap_task.                                      *)
(***************************************************************************)
EXTENDS Integers, Sequences, FiniteSets, TLC

(***************************************************************************)
(* Bounds of the model.                                                    *)
(***************************************************************************)
\* rust_decimal keeps at most 28 decimal places; the model keeps DecPlaces.
DecPlaces == 2
\* Transactions submitted by parties outside the core.
MaxExternal == 2
\* Wall clock, in seconds since the epoch.
MaxTime == 1
\* Polls a monitor counts (the count saturates, polling goes on).
MaxPolls == 1
\* Transfers of two steps submitted by parties outside the core.
MaxTwoStep == 1

(***************************************************************************)
(* rust_decimal::Decimal, as an integer number of units of 10^-DecPlaces.  *)
(***************************************************************************)
RECURSIVE Pow10(_)
Pow10(n) == IF n = 0 THEN 1 ELSE 10 * Pow10(n - 1)

Scale == Pow10(DecPlaces)

\* Decimal::from(n) / Decimal::new(n, 0)
Dec(n) == n * Scale

\* Decimal::new(num, 1): num tenths
Tenths(n) == (n * Scale) \div 10

Abs(x) == IF x < 0 THEN -x ELSE x

Sign(x) == IF x < 0 THEN -1 ELSE 1

\* n / d rounded to the nearest integer, half away from zero (d > 0, n >= 0)
RoundDiv(n, d) == (2 * n + d) \div (2 * d)

\* Decimal / Decimal: the quotient rounded to the last kept decimal place
DecDiv(a, b) == Sign(a) * Sign(b) * RoundDiv(Abs(a) * Scale, Abs(b))

\* Decimal * Decimal: exact while the product fits the kept places
DecMul(a, b) == Sign(a) * Sign(b) * RoundDiv(Abs(a) * Abs(b), Scale)

\* u64::try_from(Decimal): an error for a negative value, else the integral
\* part (the fraction is dropped).  The amounts of the model stay far below
\* 2^64, the other case of an error.
ToU64(d) ==
    IF d < 0
    THEN [tag |-> "Err"]
    ELSE [tag |-> "Ok", value |-> d \div Scale]

(***************************************************************************)
(* lib.rs                                                                  *)
(***************************************************************************)
FX_SWAP_ACTION == "m10.fx.swap"
FX_SWAP_METADATA == "m10.fx.execute"

(***************************************************************************)
(* The ledger's accounts (the external collaborator's data): the           *)
(* instrument code of each account, "none" for an account without one.     *)
(***************************************************************************)
Instrument ==
    [alice |-> "USD", bob |-> "EUR", carol |-> "GBP", dave |-> "none",
     liq_usd |-> "USD", liq_eur |-> "EUR", liq_gbp |-> "GBP"]

AccountIds == DOMAIN Instrument

\* str::to_lowercase on the currency codes in use
to_lowercase(code) ==
    CASE code = "USD" -> "usd"
      [] code = "EUR" -> "eur"
      [] code = "GBP" -> "gbp"
      [] OTHER -> code

\* cli rate_for: the base rate the setup writes for a currency
rate_for(currency) ==
    CASE to_lowercase(currency) = "usd" -> Dec(1)
      [] to_lowercase(currency) = "eur" -> Tenths(9)
      [] OTHER -> Tenths(5)

\* config.liquidity: currency -> LiquidityConfig {account, base_rate}, as
\* the setup writes it
LiquidityConfig(currency, account) ==
    [currency |-> currency, account |-> account, base_rate |-> rate_for(currency)]

Configs ==
    { {LiquidityConfig("USD", "liq_usd"), LiquidityConfig("EUR", "liq_eur")} }

\* Ledger::new
Ledger_new(currency, config) ==
    [currency |-> to_lowercase(currency),
     liquidity |-> config.account,
     base_rate |-> config.base_rate]

\* main: the LedgerDB built from the configuration, keyed by lowercased code
LedgerDB(config) ==
    [c \in {to_lowercase(l.currency) : l \in config} |->
        LET l == CHOOSE l \in config : to_lowercase(l.currency) = c
        IN  Ledger_new(l.currency, l)]

(***************************************************************************)
(* event.rs: the tagged union carried as payload or metadata.              *)
(***************************************************************************)
Request(from, to, amount) == [from |-> from, to |-> to, amount |-> amount]

Event_Request(request) == [type |-> "Request", request |-> request]

Quote(request, rate, intermediary) ==
    [request |-> request, rate |-> rate, intermediary |-> intermediary]

Event_Quote(quote) == [type |-> "Quote", quote |-> quote]

Execute(request, valid_until, upper_limit, lower_limits) ==
    [request |-> request, valid_until |-> valid_until,
     upper_limit |-> upper_limit, lower_limits |-> lower_limits]

Event_Execute(execute) == [type |-> "Execute", execute |-> execute]

Event_Completed == [type |-> "Completed"]

\* bytes that are no Event
Malformed == [type |-> "Malformed"]

\* serde_json::from_slice::<Event>
from_slice(bytes) ==
    IF bytes.type \in {"Request", "Quote", "Execute", "Completed"}
    THEN [tag |-> "Ok", event |-> bytes]
    ELSE [tag |-> "Err"]

(***************************************************************************)
(* Finalized transactions of the ledger.  A transfer has one step, or two  *)
(* steps of the same sender: also is the receiver of the second step (""   *)
(* when there is none), error is response.error of the finalized           *)
(* transaction, which no handler reads.  by and cause are history: who     *)
(* submitted the transaction (Ext: a party outside the core, ByListener,   *)
(* ByMonitor) and the position of the transaction it answers (0: none).    *)
(***************************************************************************)
AnyAccount == "AnyAccount"

Ext == [kind |-> "ext", node |-> "", monitor |-> 0]

ByListener(currency) == [kind |-> "listener", node |-> currency, monitor |-> 0]

ByMonitor(m) == [kind |-> "monitor", node |-> "", monitor |-> m]

InvokeAction(from_account, target, payload, context_id, by, cause) ==
    [data |-> "InvokeAction", name |-> FX_SWAP_ACTION,
     from_account |-> from_account, target |-> target, also |-> "", amount |-> 0,
     payload |-> payload, metadata |-> << >>, error |-> FALSE,
     context_id |-> context_id, by |-> by, cause |-> cause]

CreateTransfer(from_account, to_account, amount, metadata, context_id, by, cause) ==
    [data |-> "Transfer", name |-> "",
     from_account |-> from_account, target |-> to_account, also |-> "",
     amount |-> amount,
     payload |-> Malformed, metadata |-> metadata, error |-> FALSE,
     context_id |-> context_id, by |-> by, cause |-> cause]

\* prost::Any, one entry of a transfer step's metadata
MetadataEntry(type_url, value) == [type_url |-> type_url, value |-> value]

(***************************************************************************)
(* Lookups.  fault names the one ledger round trip that fails in a         *)
(* handler run ("none": all succeed).                                      *)
(***************************************************************************)
\* Ledger::get_account
get_account(account_id, failed) ==
    IF failed
    THEN [tag |-> "Err"]
    ELSE [tag |-> "Ok", instrument |-> Instrument[account_id]]

\* get_currencies: Err when a lookup fails, Panic when an account has no
\* instrument (unwrap on None)
get_currencies(request, fault) ==
    LET from == get_account(request.from, fault = "from_account")
        to == get_account(request.to, fault = "to_account")
    IN  IF from.tag = "Err" THEN [tag |-> "Err"]
        ELSE IF from.instrument = "none" THEN [tag |-> "Panic"]
        ELSE IF to.tag = "Err" THEN [tag |-> "Err"]
        ELSE IF to.instrument = "none" THEN [tag |-> "Panic"]
        ELSE [tag |-> "Ok",
              from_currency |-> to_lowercase(from.instrument),
              to_currency |-> to_lowercase(to.instrument)]

\* get_fx_rate taking the base rate 1 for an absent to-currency
get_fx_rate_defaulting(ledgers, from_currency, to_currency) ==
    IF from_currency \notin DOMAIN ledgers THEN [tag |-> "Err"]
    ELSE IF to_currency \notin DOMAIN ledgers
    THEN [tag |-> "Ok", rate |-> DecDiv(Dec(1), ledgers[from_currency].base_rate)]
    ELSE [tag |-> "Ok",
          rate |-> DecDiv(ledgers[to_currency].base_rate,
                          ledgers[from_currency].base_rate)]

\* get_fx_rate without the division: the base rate of the to-currency
get_fx_rate_undivided(ledgers, from_currency, to_currency) ==
    IF from_currency \notin DOMAIN ledgers THEN [tag |-> "Err"]
    ELSE IF to_currency \notin DOMAIN ledgers THEN [tag |-> "Err"]
    ELSE [tag |-> "Ok", rate |-> ledgers[to_currency].base_rate]

\* get_fx_rate with the ratio inverted
get_fx_rate_inverted(ledgers, from_currency, to_currency) ==
    IF from_currency \notin DOMAIN ledgers THEN [tag |-> "Err"]
    ELSE IF to_currency \notin DOMAIN ledgers THEN [tag |-> "Err"]
    ELSE [tag |-> "Ok",
          rate |-> DecDiv(ledgers[from_currency].base_rate,
                          ledgers[to_currency].base_rate)]

\* get_fx_rate
get_fx_rate(ledgers, from_currency, to_currency) ==
    IF from_currency \notin DOMAIN ledgers THEN [tag |-> "Err"]
    ELSE IF to_currency \notin DOMAIN ledgers THEN [tag |-> "Err"]
    ELSE [tag |-> "Ok",
          rate |-> DecDiv(ledgers[to_currency].base_rate,
                          ledgers[from_currency].base_rate)]

\* the band with its closed end on the wrong side
limits_contains_upper(lower, upper, rate) == lower < rate /\ rate <= upper

\* Range<Decimal>::contains of lower..upper
limits_contains(lower, upper, rate) == lower <= rate /\ rate < upper

(***************************************************************************)
(* What parties outside the core submit.                                   *)
(***************************************************************************)
Contexts == {"c1", "c2"}

\* the (from, to, amount) of the swaps initiated
Requests ==
    { Request("alice", "bob", Dec(5)),
      Request("bob", "alice", Dec(5)),
      Request("carol", "bob", Dec(5)),
      Request("bob", "carol", Dec(5)),
      Request("dave", "bob", Dec(5)) }

\* Execute.valid_until of the directives
Deadline == 0

\* the Execute directives: the band [lower_limits, upper_limit) around,
\* at, above and below the rates 0.9 (usd to eur) and 1.11 (eur to usd)
Executes ==
    { Execute(Request("alice", "bob", Dec(5)), Deadline, Dec(1), Tenths(8)),
      Execute(Request("alice", "bob", Dec(5)), Deadline, Dec(1), Tenths(9)),
      Execute(Request("alice", "bob", Dec(5)), Deadline, Tenths(9), Tenths(8)),
      Execute(Request("alice", "bob", Dec(100)), Deadline, Tenths(12), Dec(1)),
      Execute(Request("bob", "alice", Dec(5)), Deadline, Dec(1), Tenths(8)),
      Execute(Request("carol", "bob", Dec(5)), Deadline, Dec(1), Tenths(8)),
      Execute(Request("bob", "carol", Dec(5)), Deadline, Dec(1), Tenths(8)),
      Execute(Request("dave", "bob", Dec(5)), Deadline, Dec(1), Tenths(8)) }

(***************************************************************************)
(* State.                                                                  *)
(***************************************************************************)
VARIABLES
    db,             \* the Rate Registry (LedgerDB)
    ledger,         \* the ledger's finalized transactions, in order
    requests_task,  \* per currency: the Request Listener task
    transfers_task, \* per currency: the Settlement Listener task
    monitors,       \* the Swap Monitor tasks spawned, in spawn order
    now,            \* SystemTime::now(), seconds since the epoch
    exited          \* main has returned

vars == <<db, ledger, requests_task, transfers_task, monitors, now, exited>>

Min(a, b) == IF a <= b THEN a ELSE b

Currencies == DOMAIN db

Init ==
    /\ db \in {LedgerDB(config) : config \in Configs}
    /\ ledger = << >>
    /\ requests_task = [c \in DOMAIN db |-> [pos |-> 1, status |-> "running"]]
    /\ transfers_task = [c \in DOMAIN db |-> [pos |-> 1, status |-> "running"]]
    /\ monitors = << >>
    /\ now = 0
    /\ exited = FALSE

External == Cardinality({i \in DOMAIN ledger : ledger[i].by = Ext})

\* Correlation contexts are opaque and chosen by the initiator
\* (fastrand::u64): the first one in use is called c1, a party then uses a
\* context already in use or the next fresh one
UsableContexts ==
    LET used == {ledger[i].context_id : i \in DOMAIN ledger}
    IN  IF used = {} THEN {"c1"} ELSE Contexts

(***************************************************************************)
(* Parties outside the core (cli).                                         *)
(***************************************************************************)
\* try_initiate: a Request action from the source account to any account
try_initiate(request, context_id) ==
    /\ ~exited
    /\ External < MaxExternal
    /\ ledger' = Append(ledger,
          InvokeAction(request.from, AnyAccount, Event_Request(request),
                       context_id, Ext, 0))
    /\ UNCHANGED <<db, requests_task, transfers_task, monitors, now, exited>>

\* try_execute: a transfer to a liquidity account whose metadata holds the
\* Execute directive
try_execute(execute, intermediary, context_id) ==
    /\ ~exited
    /\ External < MaxExternal
    /\ ledger' = Append(ledger,
          CreateTransfer(execute.request.from, intermediary, 1,
                         <<MetadataEntry(FX_SWAP_METADATA, Event_Execute(execute))>>,
                         context_id, Ext, 0))
    /\ UNCHANGED <<db, requests_task, transfers_task, monitors, now, exited>>

\* the wall clock
clock_advance ==
    /\ ~exited
    /\ now < MaxTime
    /\ now' = now + 1
    /\ UNCHANGED <<db, ledger, requests_task, transfers_task, monitors, exited>>

(***************************************************************************)
(* The streams: the next finalized transaction at or after pos that the    *)
(* subscription's filter lets through (0: none yet).                       *)
(***************************************************************************)
\* ObserveActionsRequest {name: FX_SWAP_ACTION, involves_accounts: [liquidity]}
actions_filter(self, txn) ==
    /\ txn.data = "InvokeAction"
    /\ txn.name = FX_SWAP_ACTION
    /\ \/ txn.from_account = self.liquidity
       \/ txn.target = self.liquidity
       \/ txn.target = AnyAccount

\* ObserveAccountsRequest {involved_accounts: [liquidity]}
transfers_filter(self, txn) ==
    /\ txn.data = "Transfer"
    /\ \/ txn.from_account = self.liquidity
       \/ txn.target = self.liquidity
       \/ txn.also = self.liquidity

\* the latest pending action first
next_action_latest(self, pos) ==
    LET S == {i \in pos..Len(ledger) : actions_filter(self, ledger[i])}
    IN  IF S = {} THEN 0 ELSE CHOOSE i \in S : \A j \in S : i >= j

next_action(self, pos) ==
    LET S == {i \in pos..Len(ledger) : actions_filter(self, ledger[i])}
    IN  IF S = {} THEN 0 ELSE CHOOSE i \in S : \A j \in S : i <= j

next_transfer(self, pos) ==
    LET S == {i \in pos..Len(ledger) : transfers_filter(self, ledger[i])}
    IN  IF S = {} THEN 0 ELSE CHOOSE i \in S : \A j \in S : i <= j

(***************************************************************************)
(* Request Listener.                                                       *)
(***************************************************************************)
\* what a handler run leaves: the transactions it got finalized, the tasks
\* it spawned, whether it panicked, whether its faulty round trip was made
Outcome(out, spawned, panic, failed) ==
    [out |-> out, spawned |-> spawned, panic |-> panic, failed |-> failed]

Nothing == Outcome(<< >>, << >>, FALSE, FALSE)

\* Ledger::publish_quote: the Quote action, from the node's liquidity account
\* to the request's source account
publish_quote(self, context_id, quote, cause) ==
    InvokeAction(self.liquidity, quote.request.from, Event_Quote(quote),
                 context_id, ByListener(self.currency), cause)

\* the mismatch check: a node quotes the requests of its own currency
always_responsible(self, from_currency) == TRUE

is_responsible(self, from_currency) == from_currency = self.currency

\* the loop body answering a Quote as it answers a Request
on_action_any_variant(self, txn, idx, fault) ==
    LET parsed == from_slice(txn.payload)
    IN  IF txn.data # "InvokeAction" \/ parsed.tag # "Ok" THEN Nothing
        ELSE IF parsed.event.type \notin {"Request", "Quote"} THEN Nothing
        ELSE
        LET request == IF parsed.event.type = "Quote"
                       THEN parsed.event.quote.request
                       ELSE parsed.event.request
            cur == get_currencies(request, fault)
        IN  IF cur.tag = "Panic" THEN Outcome(<< >>, << >>, TRUE, FALSE)
            ELSE IF cur.tag = "Err" THEN Outcome(<< >>, << >>, FALSE, TRUE)
            ELSE IF ~is_responsible(self, cur.from_currency) THEN Nothing
            ELSE
            LET rate == get_fx_rate(db, cur.from_currency, cur.to_currency)
            IN  IF rate.tag # "Ok" THEN Nothing
                ELSE IF fault = "publish" THEN Outcome(<< >>, << >>, FALSE, TRUE)
                ELSE Outcome(
                       <<publish_quote(self, txn.context_id,
                            Quote(request, rate.rate, db[cur.from_currency].liquidity),
                            idx)>>,
                       << >>, FALSE, FALSE)

\* observe_requests: the body of the loop over the transactions of a batch
on_action(self, txn, idx, fault) ==
    LET parsed == from_slice(txn.payload)
    IN  IF txn.data # "InvokeAction" \/ parsed.tag # "Ok" THEN Nothing
        ELSE IF parsed.event.type # "Request" THEN Nothing
        ELSE
        LET request == parsed.event.request
            cur == get_currencies(request, fault)
        IN  IF cur.tag = "Panic" THEN Outcome(<< >>, << >>, TRUE, FALSE)
            ELSE IF cur.tag = "Err" THEN Outcome(<< >>, << >>, FALSE, TRUE)
            ELSE IF ~is_responsible(self, cur.from_currency) THEN Nothing
            ELSE
            LET rate == get_fx_rate(db, cur.from_currency, cur.to_currency)
            IN  IF rate.tag # "Ok" THEN Nothing
                ELSE IF fault = "publish" THEN Outcome(<< >>, << >>, FALSE, TRUE)
                ELSE Outcome(
                       <<publish_quote(self, txn.context_id,
                            Quote(request, rate.rate, db[cur.from_currency].liquidity),
                            idx)>>,
                       << >>, FALSE, FALSE)

\* actions.next().await: the stream yields the batch of the next
\* transaction, an error in its place (msg? returns it) or its end
stream_next(txn_outcome, fault) ==
    IF fault = "stream_error" THEN [status |-> "failed", res |-> Nothing]
    ELSE IF fault = "stream_end" THEN [status |-> "ended", res |-> Nothing]
    ELSE [status |-> IF txn_outcome.panic THEN "panicked" ELSE "running",
          res |-> txn_outcome]

StreamFaults == {"stream_error", "stream_end"}

\* the listener taking a Request up again after a failed round trip
observe_requests_retrying(c, fault) ==
    LET self == db[c]
        idx == next_action(self, requests_task[c].pos)
        got == stream_next(on_action(self, ledger[idx], idx, fault), fault)
        res == got.res
    IN  /\ ~exited
        /\ requests_task[c].status = "running"
        /\ idx # 0
        /\ fault \notin StreamFaults \cup {"none"} => res.failed
        /\ ledger' = ledger \o res.out
        /\ requests_task' = [requests_task EXCEPT ![c] =
              [pos |-> IF res.failed THEN idx ELSE idx + 1, status |-> got.status]]
        /\ UNCHANGED <<db, transfers_task, monitors, now, exited>>

observe_requests(c, fault) ==
    LET self == db[c]
        idx == next_action(self, requests_task[c].pos)
        got == stream_next(on_action(self, ledger[idx], idx, fault), fault)
        res == got.res
    IN  /\ ~exited
        /\ requests_task[c].status = "running"
        /\ idx # 0
        /\ fault \notin StreamFaults \cup {"none"} => res.failed
        /\ ledger' = ledger \o res.out
        /\ requests_task' = [requests_task EXCEPT ![c] =
              [pos |-> idx + 1, status |-> got.status]]
        /\ UNCHANGED <<db, transfers_task, monitors, now, exited>>

(***************************************************************************)
(* Settlement Listener.                                                    *)
(***************************************************************************)
\* the Swap Monitor task as spawned: Armed, polling
Monitor(self, execute, context_id, cur, cause) ==
    [ledger |-> self.currency, execute |-> execute, context_id |-> context_id,
     from_currency |-> cur.from_currency, to_currency |-> cur.to_currency,
     pc |-> "poll", polls |-> 0, rate |-> 0, amount |-> 0,
     transfers |-> 0, completions |-> 0, cause |-> cause]

\* launch_swap_task turning down an Execute whose band is empty or whose
\* deadline has passed
launch_swap_task_validating(self, execute, context_id, cause, fault) ==
    LET cur == get_currencies(execute.request, fault)
    IN  IF cur.tag = "Err" THEN Outcome(<< >>, << >>, TRUE, TRUE)
        ELSE IF cur.tag = "Panic" THEN Outcome(<< >>, << >>, TRUE, FALSE)
        ELSE IF cur.to_currency \notin DOMAIN db THEN Outcome(<< >>, << >>, TRUE, FALSE)
        ELSE IF execute.lower_limits >= execute.upper_limit THEN Nothing
        ELSE IF now > execute.valid_until THEN Nothing
        ELSE Outcome(<< >>, <<Monitor(self, execute, context_id, cur, cause)>>,
                     FALSE, FALSE)

\* launch_swap_task up to tokio::spawn: both lookups are expected to succeed
\* and the to-currency is unwrapped from the registry
launch_swap_task(self, execute, context_id, cause, fault) ==
    LET cur == get_currencies(execute.request, fault)
    IN  IF cur.tag = "Err" THEN Outcome(<< >>, << >>, TRUE, TRUE)
        ELSE IF cur.tag = "Panic" THEN Outcome(<< >>, << >>, TRUE, FALSE)
        ELSE IF cur.to_currency \notin DOMAIN db THEN Outcome(<< >>, << >>, TRUE, FALSE)
        ELSE Outcome(<< >>, <<Monitor(self, execute, context_id, cur, cause)>>,
                     FALSE, FALSE)

\* the first metadata entry, whatever its type
find_metadata_any(metadata) ==
    IF metadata = << >> THEN << >> ELSE <<metadata[1]>>

\* the first metadata entry of the swap-execution type, << >> when none
find_metadata(metadata) ==
    LET S == {i \in DOMAIN metadata : metadata[i].type_url = FX_SWAP_METADATA}
    IN  IF S = {} THEN << >>
        ELSE <<metadata[CHOOSE i \in S : \A j \in S : i <= j]>>

\* the loop's body spawning a monitor only for a transfer that succeeded and
\* brought the amount of the request
on_transfer_checking_funds(self, txn, idx, fault) ==
    LET found == find_metadata(txn.metadata)
    IN  IF txn.data # "Transfer" \/ found = << >> THEN Nothing
        ELSE
        LET parsed == from_slice(found[1].value)
        IN  IF parsed.tag # "Ok" THEN Nothing
            ELSE IF parsed.event.type # "Execute" THEN Nothing
            ELSE IF txn.error THEN Nothing
            ELSE IF txn.amount * Scale < parsed.event.execute.request.amount THEN Nothing
            ELSE launch_swap_task(self, parsed.event.execute, txn.context_id,
                                  idx, fault)

\* observe_transfer: the body of the loop over the transactions of a batch
on_transfer(self, txn, idx, fault) ==
    LET found == find_metadata(txn.metadata)
    IN  IF txn.data # "Transfer" \/ found = << >> THEN Nothing
        ELSE
        LET parsed == from_slice(found[1].value)
        IN  IF parsed.tag # "Ok" THEN Nothing
            ELSE IF parsed.event.type # "Execute" THEN Nothing
            ELSE launch_swap_task(self, parsed.event.execute, txn.context_id,
                                  idx, fault)

\* the listener awaiting the tasks it spawned before it takes the next batch
observe_transfer_joining(c, fault) ==
    LET self == db[c]
        idx == next_transfer(self, transfers_task[c].pos)
        got == stream_next(on_transfer(self, ledger[idx], idx, fault), fault)
        res == got.res
    IN  /\ ~exited
        /\ transfers_task[c].status = "running"
        /\ idx # 0
        /\ \A m \in DOMAIN monitors :
              monitors[m].ledger = c => monitors[m].pc \notin {"poll", "transfer", "completion"}
        /\ fault \notin StreamFaults \cup {"none"} => res.failed
        /\ monitors' = monitors \o res.spawned
        /\ transfers_task' = [transfers_task EXCEPT ![c] =
              [pos |-> idx + 1, status |-> got.status]]
        /\ UNCHANGED <<db, ledger, requests_task, now, exited>>

observe_transfer(c, fault) ==
    LET self == db[c]
        idx == next_transfer(self, transfers_task[c].pos)
        got == stream_next(on_transfer(self, ledger[idx], idx, fault), fault)
        res == got.res
    IN  /\ ~exited
        /\ transfers_task[c].status = "running"
        /\ idx # 0
        /\ fault \notin StreamFaults \cup {"none"} => res.failed
        /\ monitors' = monitors \o res.spawned
        /\ transfers_task' = [transfers_task EXCEPT ![c] =
              [pos |-> idx + 1, status |-> got.status]]
        /\ UNCHANGED <<db, ledger, requests_task, now, exited>>

(***************************************************************************)
(* Swap Monitor: the task launch_swap_task spawns.                         *)
(*   pc "poll": Armed; "transfer", "completion": Settling; "done":         *)
(*   Completed; "panicked": the task failed; "aborted": the runtime shut   *)
(*   down.                                                                 *)
(***************************************************************************)
\* a turn of the loop in which a failed rate lookup ends the task
poll_fatal(mon, time) ==
    LET rate == get_fx_rate(db, mon.from_currency, mon.to_currency)
        counted == [mon EXCEPT !.polls = Min(mon.polls + 1, MaxPolls)]
    IN  IF rate.tag # "Ok" THEN [counted EXCEPT !.pc = "panicked"]
        ELSE
        LET limits_exceeded ==
                ~limits_contains(mon.execute.lower_limits,
                                 mon.execute.upper_limit, rate.rate)
            time_exceeded == time > mon.execute.valid_until
        IN  IF limits_exceeded \/ time_exceeded
            THEN [counted EXCEPT !.pc = "transfer", !.rate = rate.rate]
            ELSE counted

\* one turn of the loop: the rate lookup and the two stopping conditions
poll(mon, time) ==
    LET rate == get_fx_rate(db, mon.from_currency, mon.to_currency)
        counted == [mon EXCEPT !.polls = Min(mon.polls + 1, MaxPolls)]
    IN  IF rate.tag # "Ok" THEN counted
        ELSE
        LET limits_exceeded ==
                ~limits_contains(mon.execute.lower_limits,
                                 mon.execute.upper_limit, rate.rate)
            time_exceeded == time > mon.execute.valid_until
        IN  IF limits_exceeded \/ time_exceeded
            THEN [counted EXCEPT !.pc = "transfer", !.rate = rate.rate]
            ELSE counted

swap_task_poll(m) ==
    /\ ~exited
    /\ m \in DOMAIN monitors
    /\ monitors[m].pc = "poll"
    /\ monitors' = [monitors EXCEPT ![m] = poll(monitors[m], now)]
    /\ UNCHANGED <<db, ledger, requests_task, transfers_task, now, exited>>

\* the amount of the settlement transfer
settlement_amount(mon) == ToU64(DecMul(mon.execute.request.amount, mon.rate))

\* the settlement transfer handing on the metadata of the Execute
settlement_transfer_with_metadata(m, mon, amount) ==
    CreateTransfer(db[mon.to_currency].liquidity, mon.execute.request.to,
                   amount,
                   <<MetadataEntry(FX_SWAP_METADATA, Event_Execute(mon.execute))>>,
                   mon.context_id, ByMonitor(m), mon.cause)

\* the settlement transfer paid by the node that runs the monitor
settlement_transfer_own_node(m, mon, amount) ==
    CreateTransfer(db[mon.ledger].liquidity, mon.execute.request.to,
                   amount, << >>, mon.context_id, ByMonitor(m), mon.cause)

\* the settlement transfer: from the to-currency's liquidity account to the
\* request's destination, without metadata
settlement_transfer(m, mon, amount) ==
    CreateTransfer(db[mon.to_currency].liquidity, mon.execute.request.to,
                   amount, << >>, mon.context_id, ByMonitor(m), mon.cause)

\* the announcement tagged with the context of the first monitor spawned
completion_action_shared(m, mon) ==
    InvokeAction(db[mon.to_currency].liquidity, mon.execute.request.from,
                 Event_Completed, monitors[1].context_id, ByMonitor(m), mon.cause)

\* the announcement sent by the node that runs the monitor
completion_action_own_node(m, mon) ==
    InvokeAction(db[mon.ledger].liquidity, mon.execute.request.from,
                 Event_Completed, mon.context_id, ByMonitor(m), mon.cause)

\* the Completed announcement, addressed to the request's source account
completion_action(m, mon) ==
    InvokeAction(db[mon.to_currency].liquidity, mon.execute.request.from,
                 Event_Completed, mon.context_id, ByMonitor(m), mon.cause)

\* after the transfer was finalized
after_transfer(mon) == [mon EXCEPT !.pc = "completion"]

\* the loop without its break
after_completion_continue(mon) == [mon EXCEPT !.pc = "poll"]

\* after the Completed announcement was finalized: break
after_completion(mon) == [mon EXCEPT !.pc = "done"]

\* the settlement transfer submitted again after a failed submission
swap_task_transfer_retrying(m, ok) ==
    LET mon == monitors[m]
        amount == settlement_amount(mon)
    IN  /\ ~exited
        /\ m \in DOMAIN monitors
        /\ mon.pc = "transfer"
        /\ ~ok => amount.tag = "Ok"
        /\ IF amount.tag # "Ok"
           THEN /\ monitors' = [monitors EXCEPT ![m].pc = "panicked"]
                /\ UNCHANGED ledger
           ELSE LET sent == [mon EXCEPT !.transfers = @ + 1,
                                        !.amount = amount.value]
                IN  IF ok
                    THEN /\ monitors' = [monitors EXCEPT ![m] = after_transfer(sent)]
                         /\ ledger' = Append(ledger,
                               settlement_transfer(m, mon, amount.value))
                    ELSE /\ monitors' = [monitors EXCEPT ![m] = sent]
                         /\ UNCHANGED ledger
        /\ UNCHANGED <<db, requests_task, transfers_task, now, exited>>

swap_task_transfer(m, ok) ==
    LET mon == monitors[m]
        amount == settlement_amount(mon)
    IN  /\ ~exited
        /\ m \in DOMAIN monitors
        /\ mon.pc = "transfer"
        /\ ~ok => amount.tag = "Ok"
        /\ IF amount.tag # "Ok"
           THEN /\ monitors' = [monitors EXCEPT ![m].pc = "panicked"]
                /\ UNCHANGED ledger
           ELSE LET sent == [mon EXCEPT !.transfers = @ + 1,
                                        !.amount = amount.value]
                IN  IF ok
                    THEN /\ monitors' = [monitors EXCEPT ![m] = after_transfer(sent)]
                         /\ ledger' = Append(ledger,
                               settlement_transfer(m, mon, amount.value))
                    ELSE /\ monitors' = [monitors EXCEPT ![m] =
                                            [sent EXCEPT !.pc = "panicked"]]
                         /\ UNCHANGED ledger
        /\ UNCHANGED <<db, requests_task, transfers_task, now, exited>>

swap_task_completion(m, ok) ==
    LET mon == monitors[m]
        sent == [mon EXCEPT !.completions = @ + 1]
    IN  /\ ~exited
        /\ m \in DOMAIN monitors
        /\ mon.pc = "completion"
        /\ IF ok
           THEN /\ monitors' = [monitors EXCEPT ![m] = after_completion(sent)]
                /\ ledger' = Append(ledger, completion_action(m, mon))
           ELSE /\ monitors' = [monitors EXCEPT ![m] =
                                   [sent EXCEPT !.pc = "panicked"]]
                /\ UNCHANGED ledger
        /\ UNCHANGED <<db, requests_task, transfers_task, now, exited>>

(***************************************************************************)
(* main: the listeners' streams and select_all.                            *)
(***************************************************************************)
\* the runtime's shutdown: a task still running is dropped
shutdown_task(status) == IF status = "running" THEN "aborted" ELSE status

\* a monitor task that outlives the runtime
shutdown_monitor_detached(mon) == mon

shutdown_monitor(mon) ==
    IF mon.pc \in {"poll", "transfer", "completion"}
    THEN [mon EXCEPT !.pc = "aborted"]
    ELSE mon

\* main joining the Swap Monitor tasks as well: it returns when a monitor
\* has failed
main_exit_joining_monitors ==
    /\ ~exited
    /\ \/ \E c \in Currencies :
             \/ requests_task[c].status # "running"
             \/ transfers_task[c].status # "running"
       \/ \E m \in DOMAIN monitors : monitors[m].pc = "panicked"
    /\ exited' = TRUE
    /\ requests_task' = [c \in Currencies |->
          [requests_task[c] EXCEPT !.status = shutdown_task(@)]]
    /\ transfers_task' = [c \in Currencies |->
          [transfers_task[c] EXCEPT !.status = shutdown_task(@)]]
    /\ monitors' = [m \in DOMAIN monitors |-> shutdown_monitor(monitors[m])]
    /\ UNCHANGED <<db, ledger, now>>

\* select_all(futures).await.0??: main returns as soon as one listener task
\* has ended, and the runtime drops every other task
main_exit ==
    /\ ~exited
    /\ \E c \in Currencies :
          \/ requests_task[c].status # "running"
          \/ transfers_task[c].status # "running"
    /\ exited' = TRUE
    /\ requests_task' = [c \in Currencies |->
          [requests_task[c] EXCEPT !.status = shutdown_task(@)]]
    /\ transfers_task' = [c \in Currencies |->
          [transfers_task[c] EXCEPT !.status = shutdown_task(@)]]
    /\ monitors' = [m \in DOMAIN monitors |-> shutdown_monitor(monitors[m])]
    /\ UNCHANGED <<db, ledger, now>>

(***************************************************************************)
(* The system.                                                             *)
(***************************************************************************)
Liquidity == {db[c].liquidity : c \in Currencies}

\* try_execute pays the quote's intermediary: the liquidity account of the
\* source currency's node; a transfer crafted for a source currency without
\* node goes to any liquidity account
Intermediaries(execute) ==
    LET code == to_lowercase(Instrument[execute.request.from])
    IN  IF code \in Currencies THEN {db[code].liquidity} ELSE Liquidity

LookupFaults == {"from_account", "to_account"}

\* the round trip that fails in a run of a listener's handler
RequestFaults == {"none"} \cup LookupFaults \cup {"publish"}

TransferFaults == {"none"} \cup LookupFaults

MonitorIds == 1..MaxExternal

Next ==
    \/ \E r \in Requests, x \in UsableContexts : try_initiate(r, x)
    \/ \E e \in Executes, x \in UsableContexts : \E a \in Intermediaries(e) : try_execute(e, a, x)
    \/ clock_advance
    \/ \E c \in Currencies, f \in RequestFaults : observe_requests(c, f)
    \/ \E c \in Currencies, f \in TransferFaults : observe_transfer(c, f)
    \/ \E m \in MonitorIds : swap_task_poll(m)
    \/ \E m \in MonitorIds, ok \in BOOLEAN : swap_task_transfer(m, ok)
    \/ \E m \in MonitorIds, ok \in BOOLEAN : swap_task_completion(m, ok)
    \/ main_exit

Spec == Init /\ [][Next]_vars

(***************************************************************************)
(* Properties.                                                             *)
(***************************************************************************)
Armed(mon) == mon.pc = "poll"

Settling(mon) == mon.pc \in {"transfer", "completion"}

Completed(mon) == mon.pc = "done"

\* the monitor met a stopping condition at some poll
Triggered(mon) == mon.pc \in {"transfer", "completion", "done", "panicked"}

\* the finalized transactions monitor m submitted
TransfersBy(m) ==
    {j \in DOMAIN ledger : ledger[j].by = ByMonitor(m) /\ ledger[j].data = "Transfer"}

CompletionsBy(m) ==
    {j \in DOMAIN ledger : ledger[j].by = ByMonitor(m) /\ ledger[j].data = "InvokeAction"}

\* C1: a Swap Monitor submits at most one settlement transfer and at most
\* one Completed announcement over its lifetime, and a monitor that reached
\* Completed submitted exactly one of each.
C1_OneSettlementPerMonitor ==
    \A m \in DOMAIN monitors :
        /\ monitors[m].transfers <= 1
        /\ monitors[m].completions <= 1
        /\ Cardinality(TransfersBy(m)) <= monitors[m].transfers
        /\ Cardinality(CompletionsBy(m)) <= monitors[m].completions
        /\ Completed(monitors[m]) =>
              /\ monitors[m].transfers = 1 /\ Cardinality(TransfersBy(m)) = 1
              /\ monitors[m].completions = 1 /\ Cardinality(CompletionsBy(m)) = 1

C1_Witness ==
    \E m \in DOMAIN monitors :
        /\ Completed(monitors[m])
        /\ monitors[m].polls >= 1
        /\ Cardinality(TransfersBy(m)) = 1
        /\ Cardinality(CompletionsBy(m)) = 1

\* C2: for every correlation context, all Swap Monitors together submit at
\* most one settlement transfer and at most one Completed announcement.
C2_OneSettlementPerContext ==
    \A x \in Contexts :
        /\ Cardinality({j \in DOMAIN ledger :
              /\ ledger[j].by.kind = "monitor"
              /\ ledger[j].data = "Transfer"
              /\ ledger[j].context_id = x}) <= 1
        /\ Cardinality({j \in DOMAIN ledger :
              /\ ledger[j].by.kind = "monitor"
              /\ ledger[j].data = "InvokeAction"
              /\ ledger[j].context_id = x}) <= 1

\* the rate the registry gives monitor mon ("Err" for an unknown currency)
RateOf(mon) == get_fx_rate(db, mon.from_currency, mon.to_currency)

Breached(mon) ==
    /\ RateOf(mon).tag = "Ok"
    /\ \/ RateOf(mon).rate >= mon.execute.upper_limit
       \/ RateOf(mon).rate < mon.execute.lower_limits

\* C3: a monitor whose polls see lower_limit <= rate < upper_limit while the
\* clock has not passed valid_until stays Armed and submits nothing; the
\* first poll that sees rate >= upper_limit or rate < lower_limit makes it
\* leave Armed for Settling, at that rate.
C3_BandCheck ==
    \A m \in DOMAIN monitors :
        LET mon == monitors[m]
        IN  /\ Triggered(mon) /\ now <= mon.execute.valid_until =>
                  /\ mon.rate >= mon.execute.upper_limit
                     \/ mon.rate < mon.execute.lower_limits
                  /\ Breached(mon)
            /\ mon.polls >= 1 /\ Breached(mon) =>
                  /\ ~Armed(mon)
                  /\ mon.pc # "aborted" => Triggered(mon) /\ mon.rate = RateOf(mon).rate
            /\ Armed(mon) =>
                  /\ mon.transfers = 0 /\ mon.completions = 0
                  /\ TransfersBy(m) = {} /\ CompletionsBy(m) = {}

\* one monitor polled at rate = lower_limit and is still Armed, another
\* polled at rate = upper_limit and is Settling, both before the deadline
C3_Witness ==
    /\ \E m \in DOMAIN monitors :
          /\ Armed(monitors[m]) /\ monitors[m].polls >= 1
          /\ now <= monitors[m].execute.valid_until
          /\ RateOf(monitors[m]).tag = "Ok"
          /\ RateOf(monitors[m]).rate = monitors[m].execute.lower_limits
    /\ \E m \in DOMAIN monitors :
          /\ Settling(monitors[m])
          /\ now <= monitors[m].execute.valid_until
          /\ monitors[m].rate = monitors[m].execute.upper_limit

\* C4: a poll of an Armed monitor made after the clock has passed
\* valid_until makes the monitor leave Armed.
C4_DeadlinePollSettles ==
    [][\A m \in DOMAIN monitors :
          /\ Armed(monitors[m])
          /\ now > monitors[m].execute.valid_until
          /\ monitors'[m].polls > monitors[m].polls
          => ~Armed(monitors'[m])]_vars

\* C5: the amount of the settlement transfer is request.amount times the
\* rate observed at the trigger, exactly.
C5_AmountIsProduct ==
    \A m \in DOMAIN monitors :
        \A j \in TransfersBy(m) :
            Dec(ledger[j].amount) =
                DecMul(monitors[m].execute.request.amount, monitors[m].rate)

\* the ledger's transaction i is a Request action of a party outside
IsRequest(i) ==
    /\ ledger[i].by = Ext
    /\ ledger[i].data = "InvokeAction"
    /\ ledger[i].payload.type = "Request"

\* the currency an account resolves to ("none": no instrument)
CurrencyOf(account_id) == to_lowercase(Instrument[account_id])

\* the finalized transactions the listeners of the nodes submitted
ByListeners == {j \in DOMAIN ledger : ledger[j].by.kind = "listener"}

QuotesFor(i) == {j \in ByListeners : ledger[j].cause = i}

\* rate is to_base / from_base, to the nearest unit of the last decimal place
IsRatio(rate, to_base, from_base) ==
    2 * Abs(rate * from_base - to_base * Scale) <= from_base

\* C6: every Quote a node N publishes answers a Request: it carries
\* rate = registry[to].base_rate / registry[from].base_rate, N's liquidity
\* account as intermediary, the Request unchanged and the context of the
\* inbound message, and is addressed to the request's source account.
C6_QuoteContents ==
    \A j \in ByListeners :
        LET t == ledger[j]
            N == t.by.node
            inbound == ledger[t.cause]
            from_currency == CurrencyOf(t.payload.quote.request.from)
            to_currency == CurrencyOf(t.payload.quote.request.to)
        IN  /\ t.data = "InvokeAction" /\ t.name = FX_SWAP_ACTION
            /\ t.payload.type = "Quote"
            /\ t.cause \in DOMAIN ledger /\ IsRequest(t.cause)
            /\ t.payload.quote.request = inbound.payload.request
            /\ t.context_id = inbound.context_id
            /\ t.from_account = db[N].liquidity
            /\ t.payload.quote.intermediary = db[N].liquidity
            /\ t.target = inbound.payload.request.from
            /\ from_currency \in Currencies /\ to_currency \in Currencies
            /\ IsRatio(t.payload.quote.rate, db[to_currency].base_rate,
                       db[from_currency].base_rate)

\* quotes in both directions are on the ledger (rates 0.9 and 1.11)
C6_Witness ==
    /\ \E j \in ByListeners : ledger[j].payload.quote.rate = Tenths(9)
    /\ \E j \in ByListeners : ledger[j].payload.quote.rate > Dec(1)

\* every Request Listener has handled transaction i
HandledByAll(i) == \A c \in Currencies : requests_task[c].pos > i

\* C7 (as claimed): every Request delivered to all Request Listeners has
\* exactly one Quote.
C7_ExactlyOneQuote ==
    \A i \in DOMAIN ledger :
        IsRequest(i) /\ HandledByAll(i) => Cardinality(QuotesFor(i)) = 1

\* both accounts of the request have an instrument and both currencies are
\* in the Rate Registry
Quotable(request) ==
    /\ CurrencyOf(request.from) \in Currencies
    /\ CurrencyOf(request.to) \in Currencies

\* C7 (amended): a Request has at most one Quote, published by the node of
\* its source currency; that node publishes it whenever its handler run has
\* no failed round trip and both currencies are in the Rate Registry.
C7_AtMostOneQuote ==
    /\ [](\A i \in DOMAIN ledger :
            IsRequest(i) =>
                /\ Cardinality(QuotesFor(i)) <= 1
                /\ \A j \in QuotesFor(i) :
                      ledger[j].by.node = CurrencyOf(ledger[i].payload.request.from))
    /\ [][\A c \in Currencies : \A i \in DOMAIN ledger :
            /\ i = next_action(db[c], requests_task[c].pos)
            /\ IsRequest(i)
            /\ CurrencyOf(ledger[i].payload.request.from) = c
            /\ Quotable(ledger[i].payload.request)
            /\ observe_requests(c, "none")
            => Cardinality(QuotesFor(i))' = 1]_vars

\* a Request all listeners have handled, quoted once, by its source node
C7_Witness ==
    \E i \in DOMAIN ledger :
        /\ IsRequest(i) /\ HandledByAll(i)
        /\ Cardinality(QuotesFor(i)) = 1
        /\ \A c \in Currencies : requests_task[c].status = "running"

\* C8: a node whose currency differs from the source currency of a Request
\* submits nothing for that Request.
C8_NoQuoteFromOtherNode ==
    \A i \in DOMAIN ledger :
        IsRequest(i) =>
            /\ \A j \in DOMAIN ledger :
                  ledger[j].cause = i =>
                      /\ ledger[j].by.kind = "listener"
                      /\ ledger[j].by.node = CurrencyOf(ledger[i].payload.request.from)
            /\ \A m \in DOMAIN monitors : monitors[m].cause # i

\* a node has handled a Request of another node's currency (which that
\* node quoted) and goes on
C8_Witness ==
    \E i \in DOMAIN ledger : \E c \in Currencies :
        /\ IsRequest(i)
        /\ Quotable(ledger[i].payload.request)
        /\ CurrencyOf(ledger[i].payload.request.from) # c
        /\ requests_task[c].pos > i
        /\ requests_task[c].status = "running"
        /\ QuotesFor(i) # {}

\* C9: every transaction the core submits carries the correlation context
\* of the inbound transaction that caused it, and every Swap Monitor that
\* of the transfer that embedded its Execute.
C9_CorrelationIsolation ==
    /\ \A j \in DOMAIN ledger :
          ledger[j].by # Ext =>
              /\ ledger[j].cause \in DOMAIN ledger
              /\ ledger[ledger[j].cause].by = Ext
              /\ ledger[j].context_id = ledger[ledger[j].cause].context_id
    /\ \A m \in DOMAIN monitors :
          /\ monitors[m].cause \in DOMAIN ledger
          /\ monitors[m].context_id = ledger[monitors[m].cause].context_id
          /\ \A j \in TransfersBy(m) \cup CompletionsBy(m) :
                ledger[j].cause = monitors[m].cause

\* two swaps of the same accounts and amount under different contexts have
\* both been settled and announced
C9_Witness ==
    \E m1, m2 \in DOMAIN monitors :
        /\ monitors[m1].context_id # monitors[m2].context_id
        /\ monitors[m1].execute.request = monitors[m2].execute.request
        /\ TransfersBy(m1) # {} /\ CompletionsBy(m1) # {}
        /\ TransfersBy(m2) # {} /\ CompletionsBy(m2) # {}

\* the Execute directive of the transfer the Settlement Listener of c gets next
NextExecute(c) ==
    find_metadata(ledger[next_transfer(db[c], transfers_task[c].pos)].metadata)[1]
        .value.execute

\* C10: a failed account lookup while the Settlement Listener launches a
\* Swap Monitor leaves the listener running.
C10_LookupFailureKeepsListener ==
    [][\A c \in Currencies : \A f \in LookupFaults :
          /\ observe_transfer(c, f)
          /\ Quotable(NextExecute(c).request)
          => transfers_task'[c].status = "running"]_vars

\* the listener tasks of all nodes are running
ListenersRunning ==
    \A c \in Currencies :
        /\ requests_task[c].status = "running"
        /\ transfers_task[c].status = "running"

\* monitor m's settlement fails in this step
SettlementFails(m) ==
    /\ m \in DOMAIN monitors
    /\ Settling(monitors[m])
    /\ monitors'[m].pc = "panicked"

\* C11: a settlement that fails in one Swap Monitor ends that monitor only:
\* the step leaves every other monitor and every listener task as they are
\* and does not end the process, main returns only once a listener task has
\* ended, and a monitor that is Settling while the process runs can always
\* take its next settlement step.
C11_FailedSettlementIsolated ==
    /\ [][\A m \in MonitorIds :
            SettlementFails(m) =>
                /\ \A k \in DOMAIN monitors \ {m} : monitors'[k] = monitors[k]
                /\ requests_task' = requests_task
                /\ transfers_task' = transfers_task
                /\ exited' = exited]_vars
    /\ [][exited' # exited => ~ListenersRunning]_vars
    /\ [](\A k \in DOMAIN monitors :
            ~exited /\ Settling(monitors[k]) =>
                ENABLED (swap_task_transfer(k, TRUE) \/ swap_task_completion(k, TRUE)))

\* one monitor failed at its settlement transfer, another one has completed
\* its settlement, and all listeners are running
C11_Witness ==
    /\ ~exited /\ ListenersRunning
    /\ \E m, k \in DOMAIN monitors :
          /\ monitors[m].pc = "panicked" /\ monitors[m].transfers = 1
          /\ TransfersBy(m) = {}
          /\ Completed(monitors[k])
          /\ Cardinality(TransfersBy(k)) = 1

\* the Settlement Listener of c has a delivered transfer to handle
TransferPending(c) ==
    /\ ~exited
    /\ transfers_task[c].status = "running"
    /\ next_transfer(db[c], transfers_task[c].pos) # 0

\* C12: the Settlement Listener never waits for a Swap Monitor: whatever
\* the monitors spawned so far are doing, a listener with a delivered
\* transfer can handle it, and handling it leaves those monitors as they are.
C12_ListenerNeverWaits ==
    /\ [](\A c \in Currencies :
            TransferPending(c) => ENABLED observe_transfer(c, "none"))
    /\ [][\A c \in Currencies : \A f \in TransferFaults :
            observe_transfer(c, f) =>
                \A m \in DOMAIN monitors : monitors'[m] = monitors[m]]_vars

\* two monitors spawned by the same listener are Armed at the same time,
\* the first one having polled before the second one was spawned
C12_Witness ==
    \E m, k \in DOMAIN monitors :
        /\ m < k
        /\ monitors[m].ledger = monitors[k].ledger
        /\ Armed(monitors[m]) /\ monitors[m].polls >= 1
        /\ Armed(monitors[k]) /\ monitors[k].polls = 0
        /\ transfers_task[monitors[m].ledger].status = "running"

\* the node whose Settlement Listener spawned the monitor
NodeOf(mon) == db[mon.ledger]

AnnouncedAfterTransfer(m, j) ==
    /\ \E i \in TransfersBy(m) :
          i < j /\ ledger[j].context_id = ledger[i].context_id
    /\ ledger[j].payload = Event_Completed
    /\ ledger[j].target = monitors[m].execute.request.from

LedgerConfig(currency, liquidity_account, base_rate) ==
    [currency |-> currency, account |-> liquidity_account, base_rate |-> base_rate]

\* base_rate values of the configuration: 0.5, 0.9, 1 and 3
BaseRates == {Tenths(5), Tenths(9), Dec(1), Dec(3)}

RateConfigs ==
    { {LedgerConfig("USD", "liq_usd", a), LedgerConfig("EUR", "liq_eur", b)} :
        a \in BaseRates, b \in BaseRates }

RateRequests ==
    {Request("alice", "bob", Dec(5)), Request("bob", "alice", Dec(5))}

RateInit ==
    /\ db \in {LedgerDB(config) : config \in RateConfigs}
    /\ ledger = << >>
    /\ requests_task = [c \in DOMAIN db |-> [pos |-> 1, status |-> "running"]]
    /\ transfers_task = [c \in DOMAIN db |-> [pos |-> 1, status |-> "running"]]
    /\ monitors = << >>
    /\ now = 0
    /\ exited = FALSE

RateNext ==
    \/ \E r \in RateRequests, x \in UsableContexts : try_initiate(r, x)
    \/ \E c \in Currencies : observe_requests(c, "none")

RateSpec == RateInit /\ [][RateNext]_vars

\* rate(from, to) of the registry
rate(from, to) == get_fx_rate(db, from, to).rate

\* C15 (as claimed): for all currencies A and B of the Rate Registry
\* rate(A, A) = 1 and rate(A, B) * rate(B, A) = 1.
C15_RatesInverse ==
    \A A \in Currencies, B \in Currencies :
        /\ get_fx_rate(db, A, B).tag = "Ok"
        /\ rate(A, A) = Dec(1)
        /\ DecMul(rate(A, B), rate(B, A)) = Dec(1)

\* C15 (amended): rate(A, A) = 1, and rate(A, B) * rate(B, A) is 1 up to
\* the rounding of the two quotients and of the product to the last decimal
\* place: it is off by at most (rate(A, B) + rate(B, A) + 1) / 2 units of
\* that place (and a quarter of a unit squared).
C15_RatesInverseRounded ==
    \A A \in Currencies, B \in Currencies :
        /\ get_fx_rate(db, A, B).tag = "Ok"
        /\ rate(A, A) = Dec(1)
        /\ 4 * Scale * Abs(DecMul(rate(A, B), rate(B, A)) - Dec(1))
              <= 2 * (rate(A, B) + rate(B, A) + Scale) + 1

\* Quotes in both directions are published whose rates are no exact
\* inverses of each other
C15_Witness ==
    \E i \in ByListeners, j \in ByListeners :
        /\ ledger[i].payload.quote.request.from = "alice"
        /\ ledger[j].payload.quote.request.from = "bob"
        /\ ledger[i].payload.quote.rate = rate("usd", "eur")
        /\ ledger[j].payload.quote.rate = rate("eur", "usd")
        /\ DecMul(ledger[i].payload.quote.rate, ledger[j].payload.quote.rate) # Dec(1)

\* the monitor's task has ended by a failure
Failed(mon) == mon.pc = "panicked"

\* C16: a settlement is never retried: a settlement transfer or Completed
\* submission that fails ends the monitor at once, a monitor that failed
\* at its transfer has announced nothing, and a failed monitor submits
\* nothing ever after.
C16_NoRetry ==
    /\ [](\A m \in DOMAIN monitors :
            Failed(monitors[m]) =>
                /\ monitors[m].transfers <= 1 /\ monitors[m].completions <= 1
                /\ TransfersBy(m) = {} =>
                      monitors[m].completions = 0 /\ CompletionsBy(m) = {}
                /\ monitors[m].completions = 1 =>
                      Cardinality(TransfersBy(m)) = 1 /\ CompletionsBy(m) = {})
    /\ [][\A m \in DOMAIN monitors :
            /\ \/ monitors'[m].transfers > monitors[m].transfers
               \/ monitors'[m].completions > monitors[m].completions
            /\ ledger' = ledger
            => Failed(monitors'[m])]_vars
    /\ [][\A m \in DOMAIN monitors :
            Failed(monitors[m]) =>
                /\ monitors'[m] = monitors[m]
                /\ \A j \in DOMAIN ledger' \ DOMAIN ledger :
                      ledger'[j].by # ByMonitor(m)]_vars

\* one monitor failed at its settlement transfer, another one at its
\* Completed announcement after its transfer was finalized, and the ledger
\* has gone on since
C16_Witness ==
    \E m, k \in DOMAIN monitors :
        /\ Failed(monitors[m]) /\ monitors[m].transfers = 1
        /\ TransfersBy(m) = {} /\ monitors[m].completions = 0
        /\ Failed(monitors[k]) /\ monitors[k].completions = 1
        /\ Cardinality(TransfersBy(k)) = 1 /\ CompletionsBy(k) = {}

\* the transfer the Settlement Listener of c gets next embeds an Execute
\* whose accounts both have an instrument
ExecuteNext(c) ==
    LET idx == next_transfer(db[c], transfers_task[c].pos)
    IN  /\ idx # 0
        /\ find_metadata(ledger[idx].metadata) # << >>
        /\ from_slice(find_metadata(ledger[idx].metadata)[1].value).tag = "Ok"
        /\ find_metadata(ledger[idx].metadata)[1].value.type = "Execute"
        /\ CurrencyOf(NextExecute(c).request.from) # "none"
        /\ CurrencyOf(NextExecute(c).request.to) # "none"

\* C17: when a currency of an Execute's request is absent from the Rate
\* Registry, the Settlement Listener that handles it keeps running, the
\* other monitors are left as they are and no monitor stays Armed for it.
C17_UnknownCurrencyAborts ==
    [][\A c \in Currencies :
          /\ ExecuteNext(c)
          /\ ~Quotable(NextExecute(c).request)
          /\ observe_transfer(c, "none")
          => /\ transfers_task'[c].status = "running"
             /\ \A m \in DOMAIN monitors : monitors'[m] = monitors[m]
             /\ \A m \in DOMAIN monitors' \ DOMAIN monitors :
                   ~Armed(monitors'[m])]_vars

\* the Request the Request Listener of c gets next is one of c's currency
\* (0: no such action pending)
RequestNext(c) ==
    LET idx == next_action(db[c], requests_task[c].pos)
    IN  IF /\ idx # 0
           /\ ledger[idx].payload.type = "Request"
           /\ CurrencyOf(ledger[idx].payload.request.from) = c
        THEN idx ELSE 0

\* C18: a Request whose account lookup, rate lookup or publish attempt
\* fails gets no Quote and is not taken up again: the handler run submits
\* nothing, the listener moves past the Request for good and keeps running,
\* and a later matching Request is quoted.
C18_AtMostOnceQuoting ==
    /\ [][\A c \in Currencies : \A f \in RequestFaults \ {"none"} :
            /\ RequestNext(c) # 0
            /\ observe_requests(c, f)
            => /\ ledger' = ledger
               /\ requests_task'[c].status = "running"
               /\ requests_task'[c].pos > RequestNext(c)]_vars
    /\ [][\A c \in Currencies :
            /\ RequestNext(c) # 0
            /\ CurrencyOf(ledger[RequestNext(c)].payload.request.to) \notin Currencies
            /\ CurrencyOf(ledger[RequestNext(c)].payload.request.to) # "none"
            /\ observe_requests(c, "none")
            => /\ ledger' = ledger
               /\ requests_task'[c].status = "running"
               /\ requests_task'[c].pos > RequestNext(c)]_vars
    /\ [][\A c \in Currencies :
            requests_task'[c].pos >= requests_task[c].pos]_vars
    /\ [](\A i \in DOMAIN ledger :
            IsRequest(i) => \A j \in QuotesFor(i) : j > i /\ Cardinality(QuotesFor(i)) <= 1)
    /\ [][\A c \in Currencies :
            /\ RequestNext(c) # 0
            /\ Quotable(ledger[RequestNext(c)].payload.request)
            /\ observe_requests(c, "none")
            => Len(ledger') = Len(ledger) + 1
               /\ ledger'[Len(ledger')].cause = RequestNext(c)]_vars

\* a quotable Request was dropped by the node of its currency, whose
\* listener then quoted a later Request
C18_Witness ==
    \E i, k \in DOMAIN ledger : \E c \in Currencies :
        /\ i < k /\ IsRequest(i) /\ IsRequest(k)
        /\ CurrencyOf(ledger[i].payload.request.from) = c
        /\ CurrencyOf(ledger[k].payload.request.from) = c
        /\ Quotable(ledger[i].payload.request)
        /\ requests_task[c].pos > k
        /\ QuotesFor(i) = {}
        /\ Cardinality(QuotesFor(k)) = 1

(***************************************************************************)
(* The listeners over streams that also deliver what the protocol does     *)
(* not expect: transfers with other metadata, actions with other payloads. *)
(***************************************************************************)
FilterRequest == Request("alice", "bob", Dec(5))

\* settles at its first poll: the rate 0.9 is the band's upper limit
FilterExecute == Execute(FilterRequest, Deadline, Tenths(9), Tenths(8))

\* metadata of transfers involving a liquidity account: none, bytes that are
\* no Event, the other variants, an Execute under another type, and an
\* Execute behind an entry of another type
Metadatas ==
    { << >>,
      <<MetadataEntry(FX_SWAP_METADATA, Malformed)>>,
      <<MetadataEntry(FX_SWAP_METADATA, Event_Request(FilterRequest))>>,
      <<MetadataEntry(FX_SWAP_METADATA,
                      Event_Quote(Quote(FilterRequest, Tenths(9), "liq_usd")))>>,
      <<MetadataEntry(FX_SWAP_METADATA, Event_Completed)>>,
      <<MetadataEntry("m10.memo", Event_Execute(FilterExecute))>>,
      <<MetadataEntry("m10.memo", Malformed),
        MetadataEntry(FX_SWAP_METADATA, Event_Execute(FilterExecute))>> }

\* those of them that hold an Execute of the swap-execution type
ExecuteMetadatas ==
    {d \in Metadatas :
        \E k \in DOMAIN d :
            d[k] = MetadataEntry(FX_SWAP_METADATA, Event_Execute(FilterExecute))}

\* payloads of actions named FX_SWAP_ACTION
Payloads ==
    { Event_Request(FilterRequest),
      Event_Quote(Quote(FilterRequest, Tenths(9), "liq_usd")),
      Event_Execute(FilterExecute),
      Event_Completed,
      Malformed }

\* a transfer of a party outside to a liquidity account, with any metadata
try_transfer(metadata, to_account, context_id) ==
    /\ ~exited
    /\ External < MaxExternal
    /\ ledger' = Append(ledger,
          CreateTransfer("alice", to_account, 1, metadata, context_id, Ext, 0))
    /\ UNCHANGED <<db, requests_task, transfers_task, monitors, now, exited>>

\* a transfer of a party outside in two steps, to two liquidity accounts
\* (at most MaxTwoStep of them)
try_transfer_steps(metadata, to_account, also_to, context_id) ==
    /\ ~exited
    /\ External < MaxExternal
    /\ to_account # also_to
    /\ Cardinality({i \in DOMAIN ledger : ledger[i].also # ""}) < MaxTwoStep
    /\ ledger' = Append(ledger,
          [CreateTransfer("alice", to_account, 1, metadata, context_id, Ext, 0)
              EXCEPT !.also = also_to])
    /\ UNCHANGED <<db, requests_task, transfers_task, monitors, now, exited>>

\* an action named FX_SWAP_ACTION of a party outside, with any payload
try_action(payload, target, context_id) ==
    /\ ~exited
    /\ External < MaxExternal
    /\ ledger' = Append(ledger,
          InvokeAction("alice", target, payload, context_id, Ext, 0))
    /\ UNCHANGED <<db, requests_task, transfers_task, monitors, now, exited>>

FilterNext ==
    \/ \E d \in Metadatas, a \in Liquidity, x \in UsableContexts :
          try_transfer(d, a, x)
    \/ \E p \in Payloads, x \in UsableContexts : try_action(p, AnyAccount, x)
    \/ \E c \in Currencies : observe_requests(c, "none")
    \/ \E c \in Currencies : observe_transfer(c, "none")
    \/ \E m \in MonitorIds : swap_task_poll(m)
    \/ \E m \in MonitorIds : swap_task_transfer(m, TRUE)
    \/ \E m \in MonitorIds : swap_task_completion(m, TRUE)

FilterSpec == Init /\ [][FilterNext]_vars

\* the first metadata entry of the swap-execution type of txn holds an
\* Execute
CarriesExecute(txn) ==
    /\ txn.data = "Transfer"
    /\ \E k \in DOMAIN txn.metadata :
          /\ txn.metadata[k].type_url = FX_SWAP_METADATA
          /\ \A l \in 1..(k - 1) : txn.metadata[l].type_url # FX_SWAP_METADATA
          /\ txn.metadata[k].value.type = "Execute"

\* C19: every Swap Monitor was spawned for a transfer whose first metadata
\* entry of the swap-execution type holds an Execute, which is the
\* monitor's directive; a transfer without such an entry spawns no monitor
\* and leaves the Settlement Listener running.
C19_SpawnOnlyForExecute ==
    /\ [](\A m \in DOMAIN monitors :
            /\ monitors[m].cause \in DOMAIN ledger
            /\ CarriesExecute(ledger[monitors[m].cause])
            /\ \E k \in DOMAIN ledger[monitors[m].cause].metadata :
                  ledger[monitors[m].cause].metadata[k].value
                      = Event_Execute(monitors[m].execute))
    /\ [][\A c \in Currencies :
            /\ next_transfer(db[c], transfers_task[c].pos) # 0
            /\ ~CarriesExecute(ledger[next_transfer(db[c], transfers_task[c].pos)])
            /\ observe_transfer(c, "none")
            => /\ monitors' = monitors
               /\ transfers_task'[c].status = "running"
               /\ transfers_task'[c].pos > transfers_task[c].pos]_vars

\* a listener has gone past a transfer whose metadata holds no Execute of
\* the swap-execution type without spawning, and has spawned a monitor for
\* an Execute behind an entry of another type
C19_Witness ==
    \E c \in Currencies :
        /\ transfers_task[c].status = "running"
        /\ \E i \in 1..(transfers_task[c].pos - 1) :
              /\ transfers_filter(db[c], ledger[i])
              /\ ledger[i].metadata # << >>
              /\ ~CarriesExecute(ledger[i])
              /\ \A m \in DOMAIN monitors : monitors[m].cause # i
        /\ \E m \in DOMAIN monitors :
              /\ monitors[m].ledger = c
              /\ Len(ledger[monitors[m].cause].metadata) = 2

\* the action the Request Listener of c gets next (0: none pending)
ActionNext(c) == next_action(db[c], requests_task[c].pos)

\* C20: the Request Listener publishes a Quote only for a Request: every
\* transaction a listener submitted answers an action whose payload is a
\* Request, no transaction the core submits carries a Request, and an
\* action with any other payload, the nodes' own Quotes and Completed
\* announcements included, is passed without output.
C20_QuoteOnlyForRequest ==
    /\ [](\A j \in DOMAIN ledger :
            /\ ledger[j].by.kind = "listener" =>
                  /\ ledger[j].cause \in DOMAIN ledger
                  /\ ledger[ledger[j].cause].data = "InvokeAction"
                  /\ ledger[ledger[j].cause].payload.type = "Request"
                  /\ ledger[j].payload.type = "Quote"
            /\ ledger[j].by # Ext => ledger[j].payload.type # "Request")
    /\ [][\A c \in Currencies :
            /\ ActionNext(c) # 0
            /\ ledger[ActionNext(c)].payload.type # "Request"
            /\ observe_requests(c, "none")
            => /\ ledger' = ledger
               /\ requests_task'[c].status = "running"
               /\ requests_task'[c].pos > ActionNext(c)]_vars

\* the action j has been delivered to the Request Listener of node c, which
\* has passed it
Passed(c, j) ==
    /\ actions_filter(db[c], ledger[j])
    /\ requests_task[c].pos > j
    /\ requests_task[c].status = "running"

\* a node has passed its own Quote, a node has passed the Completed
\* announcement of a monitor, and nothing answers either of them
C20_Witness ==
    /\ \E j \in ByListeners :
          /\ Passed(ledger[j].by.node, j)
          /\ \A k \in DOMAIN ledger : ledger[k].cause # j
    /\ \E m \in DOMAIN monitors : \E j \in CompletionsBy(m) :
          /\ \E c \in Currencies : Passed(c, j)
          /\ \A k \in DOMAIN ledger : ledger[k].cause # j

\* the steps of a monitor's state: Armed to Settling at a poll, through the
\* two submissions to Completed, a failed submission, the runtime's shutdown
Forward ==
    { <<"poll", "transfer">>, <<"transfer", "completion">>,
      <<"completion", "done">>,
      <<"transfer", "panicked">>, <<"completion", "panicked">>,
      <<"poll", "aborted">>, <<"transfer", "aborted">>,
      <<"completion", "aborted">> }

\* C21: the state of a Swap Monitor only moves forward along Armed,
\* Settling, Completed: neither Armed nor Settling is entered again, and a
\* Completed monitor does not poll, look up a rate or submit any more.
C21_ForwardOnly ==
    /\ [][\A m \in DOMAIN monitors :
            \/ monitors'[m].pc = monitors[m].pc
            \/ <<monitors[m].pc, monitors'[m].pc>> \in Forward]_vars
    /\ [][\A m \in DOMAIN monitors :
            Settling(monitors[m]) \/ Completed(monitors[m]) =>
                /\ ~Armed(monitors'[m])
                /\ monitors'[m].polls = monitors[m].polls
                /\ monitors'[m].rate = monitors[m].rate]_vars
    /\ [][\A m \in DOMAIN monitors :
            Completed(monitors[m]) =>
                /\ monitors'[m] = monitors[m]
                /\ \A j \in DOMAIN ledger' \ DOMAIN ledger :
                      ledger'[j].by # ByMonitor(m)]_vars

\* a monitor is Completed and the ledger has gone on after its
\* announcement
C21_Witness ==
    \E m \in DOMAIN monitors : \E j \in CompletionsBy(m) :
        /\ Completed(monitors[m])
        /\ Len(ledger) > j
        /\ ledger[Len(ledger)].by.kind = "monitor"

\* C22: a poll whose rate lookup fails leaves the monitor Armed and submits
\* nothing, the monitor can poll again, and what a poll decides does not
\* depend on the polls made before it.
C22_LookupFailureTolerated ==
    /\ [][\A m \in DOMAIN monitors :
            /\ Armed(monitors[m])
            /\ RateOf(monitors[m]).tag = "Err"
            /\ monitors'[m] # monitors[m]
            /\ ~exited'
            => /\ Armed(monitors'[m])
               /\ monitors'[m] = [monitors[m] EXCEPT !.polls = monitors'[m].polls]
               /\ ledger' = ledger]_vars
    /\ [](\A m \in DOMAIN monitors :
            Armed(monitors[m]) /\ ~exited =>
                /\ ENABLED swap_task_poll(m)
                /\ TransfersBy(m) = {} /\ CompletionsBy(m) = {}
                /\ poll(monitors[m], now).pc
                      = poll([monitors[m] EXCEPT !.polls = 0], now).pc)

\* a monitor has polled with a failing rate lookup, is Armed and can poll
\* again, the deadline having passed
C22_Witness ==
    \E m \in DOMAIN monitors :
        /\ ~exited
        /\ Armed(monitors[m]) /\ monitors[m].polls >= 1
        /\ RateOf(monitors[m]).tag = "Err"
        /\ now > monitors[m].execute.valid_until
        /\ ENABLED swap_task_poll(m)

\* the stream position moved from pos to pos2 past exactly one transaction
\* of the stream (the positions in S), idx, the earliest one at or after pos
TookNext(S, pos, pos2, idx) ==
    /\ idx \in S
    /\ idx >= pos
    /\ pos2 = idx + 1
    /\ \A k \in pos..(idx - 1) : k \notin S

\* the positions of the transactions the action stream, the transfer stream
\* of node c delivers
ActionStream(c) == {i \in DOMAIN ledger : actions_filter(db[c], ledger[i])}

TransferStream(c) == {i \in DOMAIN ledger : transfers_filter(db[c], ledger[i])}

\* C23: a listener handles the transactions of its stream in delivery
\* order, one at a time: a step of a listener takes the earliest
\* transaction not yet handled, and what it submits or spawns answers that
\* one; so a node's Quotes are in the order of their Requests and its
\* monitors in the order of their transfers.
C23_DeliveryOrder ==
    /\ [][\A c \in Currencies :
            requests_task'[c].pos # requests_task[c].pos =>
                \E idx \in DOMAIN ledger :
                    /\ TookNext(ActionStream(c), requests_task[c].pos,
                                requests_task'[c].pos, idx)
                    /\ \A j \in DOMAIN ledger' \ DOMAIN ledger :
                          ledger'[j].cause = idx]_vars
    /\ [][\A c \in Currencies :
            transfers_task'[c].pos # transfers_task[c].pos =>
                \E idx \in DOMAIN ledger :
                    /\ TookNext(TransferStream(c), transfers_task[c].pos,
                                transfers_task'[c].pos, idx)
                    /\ \A m \in DOMAIN monitors' \ DOMAIN monitors :
                          monitors'[m].cause = idx]_vars
    /\ [](\A i \in ByListeners, j \in ByListeners :
            i < j /\ ledger[i].by = ledger[j].by =>
                ledger[i].cause < ledger[j].cause)
    /\ [](\A m \in DOMAIN monitors, k \in DOMAIN monitors :
            m < k /\ monitors[m].ledger = monitors[k].ledger =>
                monitors[m].cause < monitors[k].cause)

\* two Requests were both delivered before the node quoted the first, and
\* its two Quotes are in the order of the Requests
C23_Witness ==
    \E i \in ByListeners, j \in ByListeners :
        /\ i < j /\ ledger[i].by = ledger[j].by
        /\ ledger[i].cause < ledger[j].cause
        /\ ledger[j].cause < i

\* the currency codes of the accounts
Codes == {CurrencyOf(a) : a \in AccountIds} \ {"none"}

\* C24: get_fx_rate fails exactly when the from-currency or the
\* to-currency is absent from the Rate Registry, and a lookup, failed or
\* not, changes nothing: the registry stays as it is, a Request whose rate
\* lookup fails gets no answer, a monitor whose lookup fails stays as it
\* was but for its count of polls.
C24_FailsIffUnknown ==
    /\ [](\A A \in Codes, B \in Codes :
            /\ get_fx_rate(db, A, B).tag \in {"Ok", "Err"}
            /\ get_fx_rate(db, A, B).tag = "Err"
                  <=> (A \notin Currencies \/ B \notin Currencies))
    /\ [][db' = db]_vars
    /\ [](\A i \in DOMAIN ledger :
            IsRequest(i) /\ QuotesFor(i) # {} => Quotable(ledger[i].payload.request))
    /\ [](\A m \in DOMAIN monitors :
            Triggered(monitors[m]) =>
                /\ monitors[m].from_currency \in Currencies
                /\ monitors[m].to_currency \in Currencies)
    /\ [][\A m \in DOMAIN monitors :
            RateOf(monitors[m]).tag = "Err" /\ ~exited' =>
                monitors'[m] = [monitors[m] EXCEPT !.polls = monitors'[m].polls]]_vars

\* a node has passed a Request of its currency whose to-currency is absent
\* without an answer, and a monitor whose from-currency is absent has polled
C24_Witness ==
    /\ \E i \in DOMAIN ledger :
          /\ IsRequest(i)
          /\ CurrencyOf(ledger[i].payload.request.from) \in Currencies
          /\ CurrencyOf(ledger[i].payload.request.to) \in Codes \ Currencies
          /\ requests_task[CurrencyOf(ledger[i].payload.request.from)].pos > i
          /\ QuotesFor(i) = {}
    /\ \E m \in DOMAIN monitors :
          /\ monitors[m].from_currency \notin Currencies
          /\ monitors[m].polls >= 1

(***************************************************************************)
(* The Settlement Listeners and the monitors over Execute-carrying         *)
(* transfers of one and of two steps.                                      *)
(***************************************************************************)
\* a transfer is delivered to the nodes whose liquidity account it involves,
\* each of which may spawn a monitor for it: a transfer of two steps adds
\* one monitor more than a transfer of one step
DeliveryIds == 1..(MaxExternal + MaxTwoStep)

DeliveryNext ==
    \/ \E d \in ExecuteMetadatas, a \in Liquidity : try_transfer(d, a, "c1")
    \/ \E d \in ExecuteMetadatas, a \in Liquidity, b \in Liquidity :
          try_transfer_steps(d, a, b, "c1")
    \/ \E c \in Currencies : observe_transfer(c, "none")
    \/ \E m \in DeliveryIds : swap_task_poll(m)
    \/ \E m \in DeliveryIds : swap_task_transfer(m, TRUE)
    \/ \E m \in DeliveryIds : swap_task_completion(m, TRUE)

DeliverySpec == Init /\ [][DeliveryNext]_vars

\* the Execute-carrying transfers submitted by parties outside the core
ExternalExecutes == {i \in DOMAIN ledger : ledger[i].by = Ext /\ CarriesExecute(ledger[i])}

\* the settlement transfers carry no metadata and no monitor was spawned
\* for a transaction the core submitted
NoFeedback ==
    /\ \A j \in DOMAIN ledger :
          ledger[j].by.kind = "monitor" /\ ledger[j].data = "Transfer" =>
              ledger[j].metadata = << >>
    /\ \A m \in DOMAIN monitors : monitors[m].cause \in ExternalExecutes

InBand(mon) ==
    /\ RateOf(mon).tag = "Ok"
    /\ mon.execute.lower_limits <= RateOf(mon).rate
    /\ RateOf(mon).rate < mon.execute.upper_limit

\* C26: the Rate Registry never changes, so a monitor sees the same rate at
\* every poll: a monitor whose rate lies in the band of its Execute does
\* not settle before the clock has passed valid_until, settles at the
\* first poll after it, and settles at the registry's ratio
\* to.base_rate / from.base_rate.
C26_InBandSettlesAtDeadline ==
    /\ [][db' = db]_vars
    /\ [](\A m \in DOMAIN monitors :
            InBand(monitors[m]) /\ Triggered(monitors[m]) =>
                /\ now > monitors[m].execute.valid_until
                /\ monitors[m].rate = RateOf(monitors[m]).rate
                /\ IsRatio(monitors[m].rate,
                           db[monitors[m].to_currency].base_rate,
                           db[monitors[m].from_currency].base_rate))
    /\ [][\A m \in DOMAIN monitors :
            /\ InBand(monitors[m]) /\ Armed(monitors[m])
            /\ swap_task_poll(m)
            => IF now > monitors[m].execute.valid_until
               THEN Settling(monitors'[m])
               ELSE Armed(monitors'[m]) /\ ledger' = ledger]_vars

\* a monitor whose rate 0.9 equals the lower limit of its band has settled
\* after the deadline and paid at that rate
C26_Witness ==
    \E m \in DOMAIN monitors :
        /\ InBand(monitors[m])
        /\ RateOf(monitors[m]).rate = monitors[m].execute.lower_limits
        /\ Completed(monitors[m])
        /\ now > monitors[m].execute.valid_until
        /\ monitors[m].rate = Tenths(9)

(***************************************************************************)
(* The monitors over directives a validating receiver would turn down: an  *)
(* empty band, limits the wrong way round, a deadline that has passed.     *)
(***************************************************************************)
\* margin 0 (both limits at the rate 0.9), the limits swapped, and a band
\* around the rate
ExpiryExecutes ==
    { Execute(FilterRequest, Deadline, Tenths(9), Tenths(9)),
      Execute(FilterRequest, Deadline, Tenths(8), Dec(1)),
      Execute(FilterRequest, Deadline, Dec(1), Tenths(8)) }

ExpiryNext ==
    \/ \E e \in ExpiryExecutes, x \in UsableContexts :
          \E a \in Intermediaries(e) : try_execute(e, a, x)
    \/ clock_advance
    \/ \E c \in Currencies : observe_transfer(c, "none")
    \/ \E m \in MonitorIds : swap_task_poll(m)
    \/ \E m \in MonitorIds : swap_task_transfer(m, TRUE)
    \/ \E m \in MonitorIds : swap_task_completion(m, TRUE)

ExpirySpec == Init /\ [][ExpiryNext]_vars

\* no rate lies in the band of the Execute
EmptyBand(execute) == execute.lower_limits >= execute.upper_limit

\* C27: an Execute is never turned down: the Settlement Listener spawns a
\* monitor for an Execute whose deadline has passed or whose band is empty
\* as for any other, the monitor can poll as soon as it is spawned, and its
\* first poll with a successful rate lookup settles it.
C27_SettledAtFirstPoll ==
    /\ [][\A c \in Currencies :
            /\ ExecuteNext(c) /\ Quotable(NextExecute(c).request)
            /\ observe_transfer(c, "none")
            => /\ Len(monitors') = Len(monitors) + 1
               /\ Armed(monitors'[Len(monitors')])
               /\ monitors'[Len(monitors')].polls = 0
               /\ monitors'[Len(monitors')].execute = NextExecute(c)]_vars
    /\ [](\A m \in DOMAIN monitors :
            Armed(monitors[m]) /\ ~exited => ENABLED swap_task_poll(m))
    /\ [][\A m \in DOMAIN monitors :
            /\ Armed(monitors[m]) /\ monitors[m].polls = 0
            /\ RateOf(monitors[m]).tag = "Ok"
            /\ \/ EmptyBand(monitors[m].execute)
               \/ now > monitors[m].execute.valid_until
            /\ swap_task_poll(m)
            => /\ Settling(monitors'[m])
               /\ monitors'[m].rate = RateOf(monitors[m]).rate]_vars
    /\ [](\A m \in DOMAIN monitors :
            /\ EmptyBand(monitors[m].execute)
            /\ RateOf(monitors[m]).tag = "Ok"
            /\ monitors[m].polls >= 1
            => ~Armed(monitors[m]))

\* a monitor of an Execute with margin 0 has completed and one of an
\* Execute with its limits swapped is settling, both before the deadline
C27_Witness ==
    \E m \in DOMAIN monitors, k \in DOMAIN monitors :
        /\ monitors[m].execute.lower_limits = monitors[m].execute.upper_limit
        /\ Completed(monitors[m])
        /\ monitors[k].execute.lower_limits > monitors[k].execute.upper_limit
        /\ Settling(monitors[k])
        /\ now <= monitors[m].execute.valid_until

(***************************************************************************)
(* The process down to its end: the streams may yield an error or end, a   *)
(* listener may panic on a failed lookup.                                  *)
(***************************************************************************)
\* a band around the rate (the monitor stays Armed before the deadline) and
\* a band the rate has left (the monitor settles at its first poll)
ShutdownExecutes ==
    { Execute(FilterRequest, Deadline, Dec(1), Tenths(8)), FilterExecute }

ShutdownNext ==
    \/ \E x \in UsableContexts : try_initiate(FilterRequest, x)
    \/ \E e \in ShutdownExecutes, x \in UsableContexts :
          \E a \in Intermediaries(e) : try_execute(e, a, x)
    \/ \E c \in Currencies, f \in {"none"} \cup StreamFaults :
          observe_requests(c, f)
    \/ \E c \in Currencies, f \in {"none", "from_account"} \cup StreamFaults :
          observe_transfer(c, f)
    \/ \E m \in MonitorIds : swap_task_poll(m)
    \/ \E m \in MonitorIds : swap_task_transfer(m, TRUE)
    \/ \E m \in MonitorIds : swap_task_completion(m, TRUE)
    \/ main_exit

ShutdownSpec == Init /\ [][ShutdownNext]_vars

\* the monitor's task is alive
InFlight(mon) == Armed(mon) \/ Settling(mon)

\* C28: the process ends once any one listener task has ended: main can
\* return as soon as a listener is not running and not before; when it
\* returns every other listener and every monitor in flight is aborted, and
\* nothing happens afterwards, no monitor settles.
C28_EndsWithFirstListener ==
    /\ [](~exited => (ENABLED main_exit <=> ~ListenersRunning))
    /\ [][exited' /\ ~exited =>
            /\ ~ListenersRunning
            /\ ledger' = ledger
            /\ \A m \in DOMAIN monitors :
                  monitors'[m].pc =
                      IF InFlight(monitors[m]) THEN "aborted" ELSE monitors[m].pc]_vars
    /\ [](exited =>
            /\ \A c \in Currencies :
                  /\ requests_task[c].status # "running"
                  /\ transfers_task[c].status # "running"
            /\ \A m \in DOMAIN monitors : ~InFlight(monitors[m]))
    /\ [][exited => vars' = vars]_vars

\* the process has ended with a listener whose stream ended or failed, the
\* other listeners aborted, and a monitor aborted that had not settled
C28_Witness ==
    /\ exited
    /\ \E c \in Currencies :
          \/ requests_task[c].status \in {"ended", "failed"}
          \/ transfers_task[c].status \in {"ended", "failed"}
    /\ \E c \in Currencies : transfers_task[c].status = "aborted"
    /\ \E m \in DOMAIN monitors :
          /\ monitors[m].pc = "aborted"
          /\ TransfersBy(m) = {}
          /\ InBand(monitors[m])

(***************************************************************************)
(* Transfers of parties outside that embed one Execute directive and       *)
(* differ in their sender, their amount and their outcome.                 *)
(***************************************************************************)
FundingSenders == {"alice", "dave"}

\* less than the request's amount, and the request's amount
FundingAmounts == {1, 5}

\* a transfer embedding the Execute directive, finalized with or without an
\* error
try_funding(execute, from_account, to_account, amount, failed, context_id) ==
    /\ ~exited
    /\ External < MaxExternal
    /\ ledger' = Append(ledger,
          [CreateTransfer(from_account, to_account, amount,
                          <<MetadataEntry(FX_SWAP_METADATA, Event_Execute(execute))>>,
                          context_id, Ext, 0)
              EXCEPT !.error = failed])
    /\ UNCHANGED <<db, requests_task, transfers_task, monitors, now, exited>>

FundingNext ==
    \/ \E s \in FundingSenders, n \in FundingAmounts, failed \in BOOLEAN :
          \E a \in Intermediaries(FilterExecute) :
              try_funding(FilterExecute, s, a, n, failed, "c1")
    \/ clock_advance
    \/ \E c \in Currencies : observe_transfer(c, "none")
    \/ \E m \in MonitorIds : swap_task_poll(m)
    \/ \E m \in MonitorIds : swap_task_transfer(m, TRUE)
    \/ \E m \in MonitorIds : swap_task_completion(m, TRUE)

FundingSpec == Init /\ [][FundingNext]_vars

\* what a monitor was spawned with, but for the transfer that caused it
Directive(mon) ==
    <<mon.ledger, mon.execute, mon.context_id, mon.from_currency, mon.to_currency>>

\* C29: a settlement depends on the Execute directive, the registry and the
\* clock only.  Every delivered transfer that embeds an Execute spawns a
\* monitor for that Execute, whatever its amount, its sender and its
\* outcome; monitors spawned for transfers with the same metadata and
\* context carry the same directive and pay the same amount to the same
\* account, the request's amount times the rate, to request.to.
C29_SettlementIgnoresFunds ==
    /\ [][\A c \in Currencies :
            transfers_task'[c].pos > transfers_task[c].pos =>
                LET txn == ledger[transfers_task'[c].pos - 1]
                IN  CarriesExecute(txn) =>
                        /\ Len(monitors') = Len(monitors) + 1
                        /\ monitors'[Len(monitors')].ledger = c
                        /\ txn.metadata[1].value
                              = Event_Execute(monitors'[Len(monitors')].execute)]_vars
    /\ [](\A m1 \in DOMAIN monitors, m2 \in DOMAIN monitors :
            (/\ ledger[monitors[m1].cause].metadata = ledger[monitors[m2].cause].metadata
             /\ ledger[monitors[m1].cause].context_id = ledger[monitors[m2].cause].context_id
             /\ monitors[m1].ledger = monitors[m2].ledger)
            => /\ Directive(monitors[m1]) = Directive(monitors[m2])
               /\ \A i \in TransfersBy(m1), j \in TransfersBy(m2) :
                     /\ ledger[i].amount = ledger[j].amount
                     /\ ledger[i].target = ledger[j].target
                     /\ ledger[i].from_account = ledger[j].from_account)
    /\ [](\A m \in DOMAIN monitors : \A i \in TransfersBy(m) :
            LET request == monitors[m].execute.request
                found == get_fx_rate(db, monitors[m].from_currency,
                                     monitors[m].to_currency)
            IN  /\ found.tag = "Ok"
                /\ ledger[i].target = request.to
                /\ ledger[i].amount * Scale <= DecMul(request.amount, found.rate)
                /\ DecMul(request.amount, found.rate) < (ledger[i].amount + 1) * Scale)

\* two monitors have settled the same directive, one for a failed transfer
\* of less than the request's amount, and they paid the same amount
C29_Witness ==
    \E m1 \in DOMAIN monitors, m2 \in DOMAIN monitors :
        LET t1 == ledger[monitors[m1].cause]
            t2 == ledger[monitors[m2].cause]
        IN  /\ m1 # m2
            /\ monitors[m1].pc = "done" /\ monitors[m2].pc = "done"
            /\ t1.metadata = t2.metadata
            /\ t1.error /\ ~t2.error
            /\ t1.amount * Scale < monitors[m1].execute.request.amount
            /\ t1.from_account # t2.from_account
            /\ \E i \in TransfersBy(m1), j \in TransfersBy(m2) :
                  /\ ledger[i].amount = ledger[j].amount
                  /\ ledger[i].amount > 0

====
